---- MODULE Spec2Model ----
(***************************************************************************)
(* Model of src/server/websocket.ts: the WebSocket relay that registers    *)
(* one session per deviceId, sends a welcome and the persisted chat        *)
(* history on connect, and dispatches inbound frames (chat, subscribe,     *)
(* unknown).  Each action is one synchronous segment of the event loop:    *)
(* a callback runs to completion, and the only suspension points are the   *)
(* two storage promises (getChatHistory, saveChatMessage).                 *)
(***************************************************************************)
EXTENDS Integers, Sequences, FiniteSets, TLC

\* ---------------------------------------------------------------- bounds
\* events in a run: connections, frames, 'close' events, broadcastMessage
\* calls, and storage operations that fail
MaxEvents == 3

\* ---------------------------------------------------------------- values
Absent == "undefined"    \* a property that is missing from a JSON object

HandshakeKeys == {"k1"}                       \* sec-websocket-key values
HeaderValues == HandshakeKeys \cup {"", Absent}

\* uuidv4(): the n-th generated identifier; never equal to a handshake key
UuidTable == <<"u1", "u2", "u3", "u4", "u5", "u6", "u7", "u8">>
uuidv4(n) == UuidTable[n]

Conns == 1..MaxEvents    \* a connection costs one event
\* handshake keys of connections of an earlier run of the relay, whose
\* records the History Store still holds; no connection of this run has them
PriorKeys == {"k0"}
DeviceIds == HandshakeKeys \cup {uuidv4(n) : n \in Conns} \cup PriorKeys

Contents == {"a", "b"}
Channels == {"weather", "news"}

\* ws.readyState, with "none" for a socket that has not connected yet
OPEN == "open"
CLOSING == "closing"     \* closing handshake started, 'close' not yet emitted
CLOSED == "closed"

VARIABLES
  nconns,          \* number of connections accepted so far
  nevents,         \* number of events so far
  uuids,           \* number of uuidv4() calls made so far
  readyState,      \* [Conns -> {"none", OPEN, CLOSING, CLOSED}]
  deviceIdOf,      \* the const deviceId captured by connection c's closures
  activeSessions,  \* the Map<string, ClientSession>, as a set of entries
  store,           \* History Store: deviceId -> sequence of contents
  historyFetch,    \* per connection: the getChatHistory promise
  appends,         \* message handlers suspended at await saveChatMessage
  outbox,          \* per connection: events delivered by ws.send, in order
  deadSends,       \* per connection: payloads passed to ws.send when not open
  alive,           \* the relay process is running
  unhandled,       \* a promise rejection reached no handler
  lastLog,         \* the last console line written
  received         \* per deviceId: the chat frames received on its connections,
                   \* in arrival order, each with the outcome of its append
                   \* and the number of connections accepted before it

vars == <<nconns, nevents, uuids, readyState, deviceIdOf, activeSessions,
          store, historyFetch, appends, outbox, deadSends, alive, unhandled,
          lastLog, received>>


\* ---------------------------------------------------------------- events
\* every JSON payload is one record shape; a missing property is Absent
Event(type, deviceId, message, messages, content, channel, timestamp) ==
  [type |-> type, deviceId |-> deviceId, message |-> message,
   messages |-> messages, content |-> content, channel |-> channel,
   timestamp |-> timestamp]

\* an inbound frame: the text of the frame, by what JSON.parse makes of it
Frame(syntax, type, deviceId, content, channel) ==
  [syntax |-> syntax, type |-> type, deviceId |-> deviceId,
   content |-> content, channel |-> channel]

MalformedFrames == {Frame("bad", Absent, Absent, Absent, Absent)}
NullFrames == {Frame("null", Absent, Absent, Absent, Absent)}
ChatFrames == {Frame("object", "chat", Absent, "a", Absent),
               Frame("object", "chat", "spoof", "b", Absent)}
SubscribeFrames == {Frame("object", "subscribe", Absent, Absent, ch) :
                      ch \in Channels}
UnknownFrames == {Frame("object", t, Absent, "a", Absent) :
                    t \in {"ping", Absent}}
\* frames the ws receiver refuses before any 'message' event: a client frame
\* without the mask bit, a text frame whose payload is not valid UTF-8
RejectedFrames == {Frame("unmasked", Absent, Absent, Absent, Absent),
                   Frame("invalid-utf8", Absent, Absent, Absent, Absent)}
\* the messages an external caller hands to broadcastMessage
BroadcastMessages ==
  {Event("alert", Absent, "storm", <<>>, Absent, Absent, Absent)}

Frames == MalformedFrames \cup NullFrames \cup ChatFrames
            \cup SubscribeFrames \cup UnknownFrames

\* ---------------------------------------------------------------- Map
\* activeSessions.set(key, session)
MapSetNoOverwrite(m, key, session) == m \cup {session}
MapSet(m, key, session) ==
  {e \in m : e.deviceId # key} \cup {session}

\* activeSessions.get(key): the set holding the session, empty when absent
MapGet(m, key) == {e \in m : e.deviceId = key}

\* activeSessions.delete(key)
MapDeleteAll(m, key) == {}
MapDelete(m, key) == {e \in m : e.deviceId # key}

\* ---------------------------------------------------------------- History Store
\* getChatHistory(deviceId): the records of deviceId, empty when unknown
getChatHistory(st, deviceId) == st[deviceId]

\* saveChatMessage(deviceId, content): append one record under deviceId
saveChatMessage(st, deviceId, content) ==
  [st EXCEPT ![deviceId] = Append(@, content)]

\* ---------------------------------------------------------------- ws.send
\* the outbox after ws.send(payload) on socket c; origin is the connection
\* whose callback made the call
SendOutbox(ob, rs, c, payload, origin) ==
  IF rs[c] = OPEN
  THEN [ob EXCEPT ![c] = Append(@, [payload |-> payload, origin |-> origin])]
  ELSE ob

\* the payloads handed to ws.send while the socket was not open
SendDead(ds, rs, c, payload) ==
  IF rs[c] = OPEN THEN ds ELSE [ds EXCEPT ![c] = @ \cup {payload}]

\* ---------------------------------------------------------------- handlers
\* const deviceId = req.headers['sec-websocket-key'] || uuidv4()
deviceIdFor(header, n) ==
  IF header # Absent /\ header # "" THEN header ELSE uuidv4(n)

welcomeEvent(deviceId) ==
  Event("connection", deviceId, "Connected to Ecosense WebSocket Server",
        <<>>, Absent, Absent, Absent)

\* the payloads the connection callback sends before it returns
connectSendsNothing(deviceId) == <<>>
connectSends(deviceId) == <<welcomeEvent(deviceId)>>

historyEventReversed(history) ==
  Event("history", Absent, Absent,
        [i \in 1..Len(history) |-> history[Len(history) + 1 - i]],
        Absent, Absent, Absent)
historyEventDropLast(history) ==
  Event("history", Absent, Absent,
        IF history = <<>> THEN <<>> ELSE SubSeq(history, 1, Len(history) - 1),
        Absent, Absent, Absent)
historyEvent(history) ==
  Event("history", Absent, Absent, history, Absent, Absent, Absent)

\* the branch of the message handler a frame takes
dispatchNotSubscribe(f) ==
  IF f.syntax = "bad" THEN "SyntaxError"
  ELSE IF f.syntax = "null" THEN "TypeError"
  ELSE IF f.type # "subscribe" THEN "chat"
  ELSE "subscribe"
dispatch(f) ==
  IF f.syntax = "bad" THEN "SyntaxError"       \* JSON.parse throws
  ELSE IF f.syntax = "null" THEN "TypeError"   \* parsed.deviceId = ... on null
  ELSE IF f.type = "chat" THEN "chat"
  ELSE IF f.type = "subscribe" THEN "subscribe"
  ELSE "default"

\* parsed = JSON.parse(...); parsed.deviceId = deviceId
stampKeepClient(f, deviceId) ==
  [type |-> f.type,
   deviceId |-> IF f.deviceId # Absent THEN f.deviceId ELSE deviceId,
   content |-> f.content, channel |-> f.channel]
stamp(f, deviceId) ==
  [type |-> f.type, deviceId |-> deviceId,
   content |-> f.content, channel |-> f.channel]

\* the arguments of saveChatMessage(deviceId, parsed.content)
saveCallWrongField(deviceId, parsed) ==
  [key |-> deviceId, content |-> parsed.type]
saveCall(deviceId, parsed) ==
  [key |-> deviceId, content |-> parsed.content]

\* { ...parsed, timestamp: new Date().toISOString() }
echoEvent(parsed) ==
  Event(parsed.type, parsed.deviceId, Absent, <<>>, parsed.content,
        parsed.channel, "iso")

\* after the await: the sockets the echo is sent on (none when the append
\* rejected, none when the registry has no session for deviceId)
echoTargetsIgnoreFailure(ok, sessions, deviceId) ==
  {s.ws : s \in MapGet(sessions, deviceId)}
echoTargets(ok, sessions, deviceId) ==
  IF ok THEN {s.ws : s \in MapGet(sessions, deviceId)} ELSE {}

\* handleSubscription(ws, message): the socket and the confirmation sent
handleSubscriptionFixedChannel(ws, message) ==
  [to |-> ws,
   payload |-> Event("subscribed", Absent, Absent, <<>>, Absent, "weather",
                     Absent)]
handleSubscription(ws, message) ==
  [to |-> ws,
   payload |-> Event("subscribed", Absent, Absent, <<>>, Absent,
                     message.channel, Absent)]

\* catch (error) { console.error('Error handling message:', error) }
catchError(error) ==
  [log |-> [line |-> "Error handling message:", arg |-> error],
   alive |-> TRUE]

Log(line, arg) == [line |-> line, arg |-> arg]

\* wss.clients: the sockets the server tracks, from the upgrade until 'close'
wssClientsRegistered == {e.ws : e \in activeSessions}
wssClients == {c \in Conns : readyState[c] \in {OPEN, CLOSING}}

\* the clients broadcastMessage sends to: client.readyState === client.OPEN
broadcastTargetsNoCheck(clients, rs) == clients
broadcastTargets(clients, rs) == {c \in clients : rs[c] = OPEN}

\* the 'message' listener of connection c is attached in the connection
\* callback, so frames are handled from then on while the socket is open
canReceiveAfterHistory(c) ==
  readyState[c] = OPEN /\ historyFetch[c].status # "pending"
canReceive(c) == readyState[c] = OPEN

\* ---------------------------------------------------------------- state machine
\* a storage call succeeds (TRUE) or fails (FALSE); a failure is one more
\* event of the run
Outcomes == IF nevents + 1 < MaxEvents THEN BOOLEAN ELSE {TRUE}

NoFetch == [status |-> "none", key |-> Absent, ok |-> TRUE, result |-> <<>>]

Init ==
  /\ nconns = 0
  /\ nevents = 0
  /\ uuids = 0
  /\ readyState = [c \in Conns |-> "none"]
  /\ deviceIdOf = [c \in Conns |-> Absent]
  /\ activeSessions = {}
  /\ store = [d \in DeviceIds |-> <<>>]
  /\ historyFetch = [c \in Conns |-> NoFetch]
  /\ appends = {}
  /\ outbox = [c \in Conns |-> <<>>]
  /\ deadSends = [c \in Conns |-> {}]
  /\ alive = TRUE
  /\ unhandled = FALSE
  /\ lastLog = Log("", Absent)
  /\ received = [d \in DeviceIds |-> <<>>]

\* wss.on('connection', (ws, req) => ...), up to the end of the callback:
\* register, welcome, start the history read (which resolves later)
Connect(header) ==
  /\ alive
  /\ nevents < MaxEvents
  /\ LET c == nconns + 1
         deviceId == deviceIdFor(header, uuids + 1)
         session == [ws |-> c, deviceId |-> deviceId]
         rs == [readyState EXCEPT ![c] = OPEN]
     IN /\ nconns' = c
        /\ uuids' = IF deviceId = uuidv4(uuids + 1) THEN uuids + 1 ELSE uuids
        /\ readyState' = rs
        /\ deviceIdOf' = [deviceIdOf EXCEPT ![c] = deviceId]
        /\ activeSessions' = MapSet(activeSessions, deviceId, session)
        /\ lastLog' = Log("WebSocket client connected", Absent)
        /\ LET sends == connectSends(deviceId)
           IN outbox' = IF sends = <<>> THEN outbox
                        ELSE SendOutbox(outbox, rs, c, sends[1], c)
        /\ \E ok \in Outcomes :
             /\ nevents' = IF ok THEN nevents + 1 ELSE nevents + 2
             /\ historyFetch' = [historyFetch EXCEPT ![c] =
                  [status |-> "pending", key |-> deviceId, ok |-> ok,
                   result |-> IF ok THEN getChatHistory(store, deviceId)
                                    ELSE <<>>]]
  /\ UNCHANGED <<store, appends, deadSends, alive, unhandled,
                 received>>

\* getChatHistory(deviceId).then(history => ws.send(...)): the promise of
\* connection c settles.  No rejection handler is attached, so a rejected
\* read, or a send that throws inside the callback, is an unhandled
\* rejection; whether that ends the process depends on the runtime.
HistoryResolved(c) ==
  /\ alive
  /\ historyFetch[c].status = "pending"
  /\ LET h == historyFetch[c]
         payload == historyEvent(h.result)
     IN /\ historyFetch' = [historyFetch EXCEPT ![c].status =
                              IF h.ok THEN "fulfilled" ELSE "rejected"]
        /\ outbox' = IF h.ok THEN SendOutbox(outbox, readyState, c, payload, c)
                             ELSE outbox
        /\ deadSends' = IF h.ok THEN SendDead(deadSends, readyState, c, payload)
                                ELSE deadSends
        /\ \E throws \in (IF h.ok /\ readyState[c] # OPEN THEN BOOLEAN
                                                        ELSE {FALSE}) :
             LET rejected == ~h.ok \/ throws
             IN /\ unhandled' = (unhandled \/ rejected)
                /\ \E dies \in (IF rejected THEN BOOLEAN ELSE {FALSE}) :
                     alive' = ~dies
  /\ UNCHANGED <<nconns, nevents, uuids, readyState, deviceIdOf,
                 activeSessions, store, appends, lastLog, received>>

\* ws.on('message', async (message) => ...), from the start of the handler
\* to its end or to the await of saveChatMessage
ReceiveFrame(c, f) ==
  /\ alive
  /\ canReceive(c)
  /\ nevents < MaxEvents
  /\ LET deviceId == deviceIdOf[c]
         branch == dispatch(f)
         parsed == stamp(f, deviceId)
         isChat == f.syntax = "object" /\ f.type = "chat"
     IN \E ok \in (IF isChat \/ branch = "chat" THEN Outcomes ELSE {TRUE}) :
          /\ nevents' = IF ok THEN nevents + 1 ELSE nevents + 2
          /\ received' = IF isChat
                         THEN [received EXCEPT ![deviceId] =
                                 Append(@, [content |-> f.content, ok |-> ok,
                                            conns |-> nconns])]
                         ELSE received
          /\ CASE branch \in {"SyntaxError", "TypeError"} ->
                    /\ lastLog' = catchError(branch).log
                    /\ alive' = catchError(branch).alive
                    /\ UNCHANGED <<store, appends, outbox, deadSends>>
               [] branch = "chat" ->
                    LET call == saveCall(deviceId, parsed)
                    IN /\ store' = IF ok
                                   THEN saveChatMessage(store, call.key,
                                                        call.content)
                                   ELSE store
                       /\ appends' = appends \cup
                            {[id |-> nevents, ws |-> c,
                              deviceId |-> deviceId, parsed |-> parsed,
                              call |-> call, ok |-> ok]}
                       /\ lastLog' = Log("Received message:", Absent)
                       /\ UNCHANGED <<outbox, deadSends, alive>>
               [] branch = "subscribe" ->
                    LET r == handleSubscription(c, parsed)
                    IN /\ outbox' = SendOutbox(outbox, readyState, r.to,
                                               r.payload, c)
                       /\ deadSends' = SendDead(deadSends, readyState, r.to,
                                                r.payload)
                       /\ lastLog' = Log("Client subscribed to", Absent)
                       /\ UNCHANGED <<store, appends, alive>>
               [] OTHER ->
                    /\ lastLog' = Log("Unknown message type:", Absent)
                    /\ UNCHANGED <<store, appends, outbox, deadSends, alive>>
  /\ UNCHANGED <<nconns, uuids, readyState, deviceIdOf,
                 activeSessions, historyFetch, unhandled>>

\* the ws receiver refuses frame f of connection c: the socket starts closing
\* and emits 'error'.  The connection callback attaches listeners for
\* 'message' and 'close' only, so the emit throws and the process exits.
RejectFrame(c, f) ==
  /\ alive
  /\ readyState[c] = OPEN
  /\ nevents < MaxEvents
  /\ nevents' = nevents + 1
  /\ readyState' = [readyState EXCEPT ![c] = CLOSING]
  /\ alive' = FALSE
  /\ UNCHANGED <<nconns, uuids, deviceIdOf, activeSessions, store,
                 historyFetch, appends, outbox, deadSends, unhandled,
                 lastLog, received>>

\* the rest of the message handler after await saveChatMessage settles:
\* a rejection lands in the catch block; otherwise the registry is looked
\* up by deviceId and the echo sent on the socket of the session found
AppendResolved(t) ==
  /\ alive
  /\ t \in appends
  /\ appends' = appends \ {t}
  /\ LET targets == echoTargets(t.ok, activeSessions, t.deviceId)
         payload == echoEvent(t.parsed)
         to == CHOOSE x \in targets : TRUE
     IN /\ outbox' = IF targets = {} THEN outbox
                     ELSE SendOutbox(outbox, readyState, to, payload, t.ws)
        /\ deadSends' = IF targets = {} THEN deadSends
                        ELSE SendDead(deadSends, readyState, to, payload)
        /\ \E throws \in (IF targets # {} /\ readyState[to] # OPEN
                          THEN BOOLEAN ELSE {FALSE}) :
             LET error == IF ~t.ok THEN "StorageError"
                          ELSE IF throws THEN "SendError" ELSE Absent
             IN /\ lastLog' = IF error # Absent THEN catchError(error).log
                                                ELSE lastLog
                /\ alive' = IF error # Absent THEN catchError(error).alive
                                              ELSE alive
  /\ UNCHANGED <<nconns, nevents, uuids, readyState, deviceIdOf,
                 activeSessions, store, historyFetch, unhandled, received>>

\* the client starts the closing handshake of connection c: the socket
\* leaves OPEN, and no callback of the relay runs until 'close'
BeginClose(c) ==
  /\ alive
  /\ readyState[c] = OPEN
  /\ readyState' = [readyState EXCEPT ![c] = CLOSING]
  /\ UNCHANGED <<nconns, nevents, uuids, deviceIdOf,
                 activeSessions, store, historyFetch, appends, outbox,
                 deadSends, alive, unhandled, lastLog, received>>

\* ws.on('close', ...): the socket of connection c has closed, at the end of
\* a closing handshake or abruptly
Close(c) ==
  /\ alive
  /\ readyState[c] \in {OPEN, CLOSING}
  /\ nevents < MaxEvents
  /\ nevents' = nevents + 1
  /\ readyState' = [readyState EXCEPT ![c] = CLOSED]
  /\ activeSessions' = MapDelete(activeSessions, deviceIdOf[c])
  /\ lastLog' = Log("WebSocket client disconnected", Absent)
  /\ UNCHANGED <<nconns, uuids, deviceIdOf, store,
                 historyFetch, appends, outbox, deadSends, alive, unhandled,
                 received>>

\* broadcastMessage(wss, message): one send per tracked client that is open;
\* origin 0 marks a send made by the external caller
Broadcast(message) ==
  /\ alive
  /\ nevents < MaxEvents
  /\ nevents' = nevents + 1
  /\ LET targets == broadcastTargets(wssClients, readyState)
     IN /\ outbox' = [c \in Conns |->
                        IF c \in targets
                        THEN SendOutbox(outbox, readyState, c, message, 0)[c]
                        ELSE outbox[c]]
        /\ deadSends' = [c \in Conns |->
                           IF c \in targets
                           THEN SendDead(deadSends, readyState, c, message)[c]
                           ELSE deadSends[c]]
  /\ UNCHANGED <<nconns, uuids, readyState, deviceIdOf,
                 activeSessions, store, historyFetch, appends, alive,
                 unhandled, lastLog, received>>

Next ==
  \/ \E header \in HeaderValues : Connect(header)
  \/ \E c \in Conns : HistoryResolved(c)
  \/ \E c \in Conns, f \in Frames : ReceiveFrame(c, f)
  \/ \E c \in Conns, f \in RejectedFrames : RejectFrame(c, f)
  \/ \E t \in appends : AppendResolved(t)
  \/ \E c \in Conns : BeginClose(c)
  \/ \E c \in Conns : Close(c)
  \/ \E message \in BroadcastMessages : Broadcast(message)

Spec == Init /\ [][Next]_vars

\* the records a handshake key holds from an earlier run, in append order
PriorHistories == {<<"a", "b">>, <<"b", "a">>}

\* the History Store a run starts with when the relay is restarted: the
\* records of the handshake keys, and one record of a key that is not used
\* in this run
PriorStore(h) ==
  [d \in DeviceIds |-> IF d \in HandshakeKeys THEN h
                       ELSE IF d \in PriorKeys THEN <<"b">>
                       ELSE <<>>]

\* createWebSocketServer in a process started over a store that already
\* holds records: the registry is empty, the store is not
ReplayInit ==
  /\ nconns = 0
  /\ nevents = 0
  /\ uuids = 0
  /\ readyState = [c \in Conns |-> "none"]
  /\ deviceIdOf = [c \in Conns |-> Absent]
  /\ activeSessions = {}
  /\ \E h \in PriorHistories :
       /\ store = PriorStore(h)
       /\ received = [d \in DeviceIds |->
                        [i \in 1..Len(PriorStore(h)[d]) |->
                           [content |-> PriorStore(h)[d][i], ok |-> TRUE,
                            conns |-> 0]]]
  /\ historyFetch = [c \in Conns |-> NoFetch]
  /\ appends = {}
  /\ outbox = [c \in Conns |-> <<>>]
  /\ deadSends = [c \in Conns |-> {}]
  /\ alive = TRUE
  /\ unhandled = FALSE
  /\ lastLog = Log("", Absent)

ReplaySpec == ReplayInit /\ [][Next]_vars

\* a pending getChatHistory promise settles, and its callback runs, as long
\* as the process does
FairSpec == Spec /\ \A c \in Conns : WF_vars(HistoryResolved(c))

\* ---------------------------------------------------------------- claims
ContentsOf(records) == [i \in 1..Len(records) |-> records[i].content]
Succeeded(r) == r.ok
OkContents(records) == ContentsOf(SelectSeq(records, Succeeded))
Accepted == 1..nconns
IsEcho(m) == m.payload.type = "chat"

\* C1: the echo of a chat frame is sent only on the connection the frame
\* arrived on, never on another connection, even one with the same deviceId.
EchoIsolation ==
  \A d \in Conns : \A i \in 1..Len(outbox[d]) :
    IsEcho(outbox[d][i]) => outbox[d][i].origin = d

\* C2: once every append for the chat frames of identity A has completed,
\* all of them successfully, the store holds under A exactly their contents
\* in arrival order, and every other identity holds only its own records.
HistoryPersistence ==
  \A A \in DeviceIds :
    ( /\ \A t \in appends : deviceIdOf[t.ws] # A
      /\ \A i \in 1..Len(received[A]) : received[A][i].ok )
    => /\ store[A] = ContentsOf(received[A])
       /\ \A B \in DeviceIds \ {A} : store[B] = OkContents(received[B])

HistoryPersistenceWitness ==
  \E A \in DeviceIds :
    /\ Len(received[A]) = 2
    /\ received[A][1].ok /\ received[A][2].ok
    /\ received[A][1].content # received[A][2].content
    /\ \A t \in appends : deviceIdOf[t.ws] # A
    /\ store[A] = ContentsOf(received[A])

\* the records appended under the identity of connection c before c connected
PriorRecords(c) ==
  LET before(r) == r.conns < c
  IN OkContents(SelectSeq(received[deviceIdOf[c]], before))

\* C3: the history event sent on a connection carries exactly the records
\* appended under its identity before it connected, by connections of an
\* earlier run and of this one, in append order, and no record of another
\* identity.
ReplayCorrectness ==
  \A c \in Accepted : \A i \in 1..Len(outbox[c]) :
    outbox[c][i].payload.type = "history"
      => outbox[c][i].payload.messages = PriorRecords(c)

\* a history of three records, not all alike, the last appended by an
\* earlier connection of this run and the others before the run, sent while
\* the store holds a record of another identity
ReplayCorrectnessWitness ==
  \E c \in Accepted : \E i \in 1..Len(outbox[c]) :
    LET m == outbox[c][i].payload.messages
        r == received[deviceIdOf[c]]
    IN /\ c > 1
       /\ outbox[c][i].payload.type = "history"
       /\ Len(m) = 3
       /\ m[1] # m[2]
       /\ r[1].conns = 0 /\ r[2].conns = 0
       /\ r[3].conns \in 1..(c - 1) /\ r[3].ok /\ r[3].content = m[3]
       /\ \E b \in 1..(c - 1) : deviceIdOf[b] = deviceIdOf[c]
       /\ \E d \in DeviceIds \ {deviceIdOf[c]} : store[d] # <<>>

\* one identity per connection: welcome, history read, appends and echoes
IdentityConsistent ==
  \A c \in Accepted :
    LET w == outbox[c][1].payload
    IN /\ w.type = "connection"
       /\ w.deviceId = deviceIdOf[c]
       /\ historyFetch[c].key = w.deviceId
       /\ \A t \in appends :
            t.ws = c => t.call.key = w.deviceId /\ t.parsed.deviceId = w.deviceId
       /\ \A d \in Conns : \A i \in 1..Len(outbox[d]) :
            (IsEcho(outbox[d][i]) /\ outbox[d][i].origin = c)
              => outbox[d][i].payload.deviceId = w.deviceId

\* C4: the deviceId of a connection's welcome event is the key of its history
\* read, the key of every append made for its frames and the deviceId stamped
\* in every echo of its frames, whatever deviceId the frame carried; and it
\* never changes while the connection exists.
IdentityConsistency ==
  /\ []IdentityConsistent
  /\ [][\A c \in Accepted : deviceIdOf'[c] = deviceIdOf[c]]_vars

IdentityConsistencyWitness ==
  \E d \in Conns : \E i \in 1..Len(outbox[d]) :
    /\ IsEcho(outbox[d][i])
    /\ outbox[d][i].payload.content = "b"     \* the frame carried "spoof"
    /\ outbox[d][i].payload.deviceId = deviceIdOf[outbox[d][i].origin]

\* at most one registry entry per deviceId
RegistryUnique ==
  \A e1 \in activeSessions : \A e2 \in activeSessions :
    e1.deviceId = e2.deviceId => e1 = e2

\* C5: the registry holds at most one session per deviceId; a connect leaves
\* the entry of its deviceId holding the new connection, and closes no
\* earlier connection.
RegistryLastWriterWins ==
  /\ []RegistryUnique
  /\ [][nconns' = nconns + 1 =>
          /\ MapGet(activeSessions', deviceIdOf'[nconns'])
               = {[ws |-> nconns', deviceId |-> deviceIdOf'[nconns']]}
          /\ \A c \in Accepted : readyState'[c] = readyState[c]]_vars

RegistryLastWriterWinsWitness ==
  \E a \in Accepted : \E b \in Accepted :
    /\ a < b
    /\ deviceIdOf[a] = deviceIdOf[b]
    /\ readyState[a] = OPEN /\ readyState[b] = OPEN
    /\ activeSessions = {[ws |-> b, deviceId |-> deviceIdOf[b]]}

\* C6: a failed history read is caught, and the process keeps running.
ReadFailureContained ==
  \A c \in Conns :
    historyFetch[c].status = "rejected" => ~unhandled /\ alive

DroppedSafely ==
  /\ alive'
  /\ UNCHANGED <<outbox, deadSends, activeSessions, readyState, deviceIdOf,
                 store, historyFetch, appends, unhandled, received, nconns,
                 uuids>>

\* C8: a frame that cannot be parsed, be it text that is not JSON or a frame
\* the receiver cannot decode, sends nothing, changes neither the registry
\* nor the store, closes nothing and leaves the process running with the
\* state later frames are handled from unchanged.
MalformedDropped ==
  [][\A c \in Conns :
       /\ \A f \in MalformedFrames : ReceiveFrame(c, f) => DroppedSafely
       /\ \A f \in RejectedFrames : RejectFrame(c, f) => DroppedSafely]_vars

\* C9: a frame whose type is absent or is neither chat nor subscribe sends
\* nothing and leaves the registry and the store unchanged.
UnknownTypeNoOp ==
  [][\A c \in Conns : \A f \in UnknownFrames :
       ReceiveFrame(c, f)
         => UNCHANGED <<outbox, deadSends, activeSessions, store, appends,
                        received>>]_vars

UnknownTypeNoOpWitness ==
  /\ lastLog = Log("Unknown message type:", Absent)
  /\ \E c \in Accepted : Len(outbox[c]) > 0

\* C10: a subscribe frame with channel ch yields exactly one subscribed event
\* carrying ch, on the connection it arrived on and on no other.
SubscriptionConfirmed ==
  [][\A c \in Conns : \A f \in SubscribeFrames :
       ReceiveFrame(c, f)
         => outbox' = [outbox EXCEPT ![c] =
              Append(@, [payload |-> Event("subscribed", Absent, Absent, <<>>,
                                           Absent, f.channel, Absent),
                         origin |-> c])]]_vars

SubscriptionConfirmedWitness ==
  \E c \in Accepted : \E d \in Accepted : \E i \in 1..Len(outbox[c]) :
    /\ c < d
    /\ deviceIdOf[c] = deviceIdOf[d]
    /\ outbox[c][i].payload.type = "subscribed"
    /\ outbox[c][i].payload.channel = "news"
    /\ \A j \in 1..Len(outbox[d]) : outbox[d][j].payload.type # "subscribed"

\* the entries of an outbox that broadcastMessage sent
IsBroadcast(m) == m.origin = 0
BroadcastCount(c) ==
  Cardinality({i \in 1..Len(outbox[c]) : IsBroadcast(outbox[c][i])})
Recipients == {c \in Conns : outbox'[c] # outbox[c]}

\* C11: one broadcastMessage call sends the payload exactly once to every
\* connection that is open at the call and nothing to any other connection.
BroadcastReachesOpen ==
  [][\A message \in BroadcastMessages :
       Broadcast(message)
         => /\ \A c \in Conns :
                 outbox'[c] = IF readyState[c] = OPEN
                              THEN Append(outbox[c], [payload |-> message,
                                                      origin |-> 0])
                              ELSE outbox[c]
            /\ deadSends' = deadSends]_vars

BroadcastReachesOpenWitness ==
  \E a \in Accepted : \E b \in Accepted :
    /\ b < a
    /\ readyState[a] = OPEN /\ readyState[b] = CLOSING
    /\ BroadcastCount(a) = 1 /\ BroadcastCount(b) = 0
    /\ deadSends[b] = {}

\* C12: when a history read or an append settles after its connection has
\* closed and the registry holds no session for that connection, nothing is
\* sent, and no send is attempted, on any connection.
InFlightResultsDiscarded ==
  [][/\ \A c \in Conns :
          ( /\ historyFetch[c].status = "pending"
            /\ historyFetch'[c].status # "pending"
            /\ readyState[c] = CLOSED
            /\ [ws |-> c, deviceId |-> deviceIdOf[c]] \notin activeSessions )
          => outbox' = outbox /\ deadSends' = deadSends
     /\ \A t \in appends :
          ( /\ t \notin appends'
            /\ readyState[t.ws] = CLOSED
            /\ [ws |-> t.ws, deviceId |-> t.deviceId] \notin activeSessions )
          => outbox' = outbox /\ deadSends' = deadSends]_vars

\* the connection accepted last among those with deviceId I
Newest(I) ==
  CHOOSE c \in Accepted :
    /\ deviceIdOf[c] = I
    /\ \A d \in Accepted : deviceIdOf[d] = I => d <= c

\* C13: while the connection accepted last with deviceId I is open, the
\* registry holds an entry for I with that connection's socket.
SessionLivesUntilOwnClose ==
  \A I \in DeviceIds :
    (\E c \in Accepted : deviceIdOf[c] = I)
      => (readyState[Newest(I)] = OPEN
            => MapGet(activeSessions, I) = {[ws |-> Newest(I), deviceId |-> I]})

\* C14 as stated: the connections a broadcast reaches are the sockets of the
\* registry's sessions that are open.
BroadcastToRegistered ==
  [][\A message \in BroadcastMessages :
       Broadcast(message)
         => Recipients = {e.ws : e \in {x \in activeSessions :
                                          readyState[x.ws] = OPEN}}]_vars

\* C14 as amended: the connections a broadcast reaches are all the open
\* connections of the server, registered or not; those include the open
\* sockets of the registry's sessions.
BroadcastToAllOpen ==
  [][\A message \in BroadcastMessages :
       Broadcast(message)
         => /\ Recipients = {c \in Accepted : readyState[c] = OPEN}
            /\ \A e \in activeSessions :
                 readyState[e.ws] = OPEN => e.ws \in Recipients]_vars

BroadcastToAllOpenWitness ==
  \E c \in Accepted : \E d \in Accepted :
    /\ c < d
    /\ deviceIdOf[c] = deviceIdOf[d]
    /\ readyState[c] = OPEN
    /\ [ws |-> c, deviceId |-> deviceIdOf[c]] \notin activeSessions
    /\ BroadcastCount(c) = 1 /\ BroadcastCount(d) = 1

\* the echoes delivered that are stamped with deviceId I
EchoCount(I) ==
  LET n[c \in 0..MaxEvents] ==
        IF c = 0 THEN 0
        ELSE n[c - 1] + Cardinality({i \in 1..Len(outbox[c]) :
                           /\ IsEcho(outbox[c][i])
                           /\ outbox[c][i].payload.deviceId = I})
  IN n[MaxEvents]
PendingOk(I) == Cardinality({t \in appends : t.deviceId = I /\ t.ok})

\* C15: an echo is sent only after the append of its content under the
\* sender's deviceId succeeded, so the store holds the content of every echo
\* sent; and a chat frame produces at most one echo.
AppendPrecedesEcho ==
  /\ \A d \in Conns : \A i \in 1..Len(outbox[d]) :
       IsEcho(outbox[d][i])
         => \E j \in 1..Len(store[outbox[d][i].payload.deviceId]) :
              store[outbox[d][i].payload.deviceId][j]
                = outbox[d][i].payload.content
  /\ \A I \in DeviceIds :
       EchoCount(I) + PendingOk(I) <= Len(SelectSeq(received[I], Succeeded))

AppendPrecedesEchoWitness ==
  \E I \in DeviceIds :
    /\ EchoCount(I) = 2
    /\ PendingOk(I) = 0
    /\ Len(store[I]) = 2

\* C16: every connection is sent exactly one connection event, before any
\* other event.
WelcomeFirst ==
  \A c \in Accepted :
    /\ Len(outbox[c]) >= 1
    /\ outbox[c][1].payload.type = "connection"
    /\ \A i \in 2..Len(outbox[c]) : outbox[c][i].payload.type # "connection"

WelcomeFirstWitness ==
  \E c \in Accepted :
    /\ Len(outbox[c]) >= 4
    /\ \E i \in 2..Len(outbox[c]) : outbox[c][i].payload.type = "history"
    /\ \E i \in 2..Len(outbox[c]) : IsEcho(outbox[c][i])
    /\ \E i \in 2..Len(outbox[c]) : outbox[c][i].payload.type = "subscribed"

HistoryEvents(c) ==
  {i \in 1..Len(outbox[c]) : outbox[c][i].payload.type = "history"}

HistoryAtMostOnce ==
  \A c \in Conns :
    /\ Cardinality(HistoryEvents(c)) <= 1
    /\ \A i \in HistoryEvents(c) :
         /\ historyFetch[c].status = "fulfilled"
         /\ outbox[c][i].payload.messages = historyFetch[c].result
         /\ outbox[c][i].origin = c

\* C17: at most one history event is sent on a connection, carrying what the
\* read returned; and eventually every connection that is open, in a running
\* process, with a read that succeeded has been sent exactly one.
HistoryDeliveredOnce ==
  /\ []HistoryAtMostOnce
  /\ <>[](\A c \in Conns :
             ( /\ historyFetch[c].status # "none"
               /\ historyFetch[c].ok
               /\ readyState[c] = OPEN
               /\ alive )
             => Cardinality(HistoryEvents(c)) = 1)

HistoryDeliveredOnceWitness ==
  \E c \in Accepted :
    /\ readyState[c] = OPEN
    /\ Cardinality(HistoryEvents(c)) = 1
    /\ historyFetch[c].result # <<>>
    /\ \A i \in HistoryEvents(c) :
         outbox[c][i].payload.messages = historyFetch[c].result

\* C18: an open connection handles every frame while its history read is
\* pending, and a settled append resumes its handler whatever the state of
\* the read.
NotBlockedOnBackfill ==
  /\ \A c \in Accepted :
       ( /\ alive
         /\ readyState[c] = OPEN
         /\ nevents < MaxEvents
         /\ historyFetch[c].status = "pending" )
       => \A f \in Frames : ENABLED ReceiveFrame(c, f)
  /\ \A t \in appends : alive => ENABLED AppendResolved(t)

\* a connection was sent the echo of its own chat frame before its history
EchoBeforeHistory ==
  \E c \in Accepted : \E i \in 1..Len(outbox[c]) : \E j \in 1..Len(outbox[c]) :
    /\ i < j
    /\ IsEcho(outbox[c][i]) /\ outbox[c][i].origin = c
    /\ outbox[c][j].payload.type = "history"

\* C19: the registry changes only by a connect (the entry of the connecting
\* deviceId is set) and by a close (the entry of the closing connection's
\* deviceId is removed, if any); frames and broadcasts leave it unchanged;
\* the store changes only by the append of a chat frame.
SharedStateFrame ==
  [][/\ activeSessions' # activeSessions
          => \/ /\ nconns' = nconns + 1
                /\ activeSessions' =
                     {e \in activeSessions : e.deviceId # deviceIdOf'[nconns']}
                       \cup {[ws |-> nconns', deviceId |-> deviceIdOf'[nconns']]}
             \/ \E c \in Accepted :
                  /\ readyState[c] # CLOSED /\ readyState'[c] = CLOSED
                  /\ activeSessions' =
                       {e \in activeSessions : e.deviceId # deviceIdOf[c]}
     /\ store' # store
          => \E c \in Accepted : \E f \in ChatFrames :
               /\ ReceiveFrame(c, f)
               /\ store' = [store EXCEPT ![deviceIdOf[c]] = Append(@, f.content)]
     /\ \A c \in Conns : \A f \in Frames :
          ReceiveFrame(c, f) => activeSessions' = activeSessions
     /\ \A c \in Conns :
          (readyState[c] = CLOSING /\ readyState'[c] = CLOSED
             /\ MapGet(activeSessions, deviceIdOf[c]) = {})
            => activeSessions' = activeSessions
     /\ \A message \in BroadcastMessages :
          Broadcast(message) => UNCHANGED <<activeSessions, store>>]_vars

SharedStateFrameWitness ==
  \E c \in Accepted :
    /\ BroadcastCount(c) = 1
    /\ Len(store[deviceIdOf[c]]) = 1
    /\ activeSessions = {[ws |-> c, deviceId |-> deviceIdOf[c]]}

====
